---- MODULE Spec2Model ----
(***************************************************************************)
(* Model of the RPW line-balancing core: modelos/tarea.py,                 *)
(* modelos/estacion.py, modelos/linea_produccion.py and                    *)
(* servicios/balanceador_rpw.py.                                           *)
(*                                                                         *)
(* Numbers.  Task durations are positive integers.  The cycle time is the  *)
(* quotient tiempo_disponible / demanda_diaria; it is kept as a reduced    *)
(* fraction [num, den] with den > 0, and float('inf') is [num |-> 1,       *)
(* den |-> 0].  Comparisons are made by cross-multiplication, which is     *)
(* what the float comparison yields for the small integers used here.      *)
(*                                                                         *)
(* Iteration order.  The code iterates over a dict (self.tareas) and over  *)
(* sets (precedencias, _sucesores).  Every operator that iterates takes    *)
(* the order as a parameter: dord for the dict, sord for the sets, each a  *)
(* permutation of the ids present; the actions choose them with \E, so     *)
(* every insertion order and every set order is covered.                   *)
(***************************************************************************)
EXTENDS Integers, Sequences, FiniteSets, TLC

\* ------------------------------------------------------------------ bounds
MaxTiempo == 2
MaxDemanda == 2
MaxDisponible == 3

Ids == {"A", "B", "C"}
\* str comparison of the ids ("A" < "B" < ...), used as the last sort key
IdsOrden == <<"A", "B", "C", "D", "E">>
IdRank(id) == CHOOSE i \in 1..Len(IdsOrden) : IdsOrden[i] = id

Duraciones == 1..MaxTiempo
Demandas == (0 - 1)..MaxDemanda
Disponibles == 0..MaxDisponible

\* the orders in which a collection with elements S can be iterated
Ordenes(S) == {s \in [1..Cardinality(S) -> S] : \A i, j \in DOMAIN s : i # j => s[i] # s[j]}

\* the ids a line mentions: its keys and the predecessor ids of its tasks
IdsDe(ts) == DOMAIN ts \cup UNION {ts[t].precedencias : t \in DOMAIN ts}

\* the elements of set S as a sequence, in the iteration order ord
SeqDe(S, ord) == SelectSeq(ord, LAMBDA x : x \in S)

RECURSIVE SumaSeq(_)
SumaSeq(s) == IF s = <<>> THEN 0 ELSE Head(s) + SumaSeq(Tail(s))

\* ------------------------------------------------------------- fractions
RECURSIVE Mcd(_, _)
Mcd(a, b) == IF b = 0 THEN a ELSE Mcd(b, a % b)

Abs(x) == IF x < 0 THEN 0 - x ELSE x

\* n / d for d > 0, reduced
Frac(n, d) == LET g == Mcd(Abs(n), d) IN [num |-> n \div g, den |-> d \div g]

Inf == [num |-> 1, den |-> 0]
Cero == [num |-> 0, den |-> 1]

EsInf(q) == q.den = 0
\* q <= 0, q == 0 for a cycle-time value q
FracLeqCero(q) == ~EsInf(q) /\ q.num <= 0
FracEsCero(q) == ~EsInf(q) /\ q.num = 0
\* x <= q for an integer x
EntLeqFrac(x, q) == EsInf(q) \/ x * q.den <= q.num

\* ------------------------------------------------------------------ state
VARIABLES
    tareas,            \* LineaProduccion.tareas: id -> Tarea fields
    estaciones,        \* LineaProduccion.estaciones
    demanda_diaria,    \* LineaProduccion.demanda_diaria
    tiempo_disponible, \* LineaProduccion.tiempo_disponible
    tiempo_ciclo,      \* LineaProduccion._tiempo_ciclo
    tareas_ordenadas,  \* BalanceadorRPW.tareas_ordenadas (ids)
    asignaciones,      \* BalanceadorRPW.asignaciones: id -> numero
    resultado,         \* what the last call returned or raised
    corridas,          \* the balancear calls in progress on the line, each by
                       \* its own BalanceadorRPW: position and locals
    leido,             \* the linea.estaciones another thread last read
    mantisa            \* significand bits of the float arithmetic, 0 = exact

vars == <<tareas, estaciones, demanda_diaria, tiempo_disponible, tiempo_ciclo,
          tareas_ordenadas, asignaciones, resultado, corridas, leido, mantisa>>

\* ------------------------------------------------------- float arithmetic
\* The times of the program are Python floats: binary floating point, every
\* operation rounded to the nearest float, ties to even.  A behaviour fixes
\* the number of significand bits in mantisa: BitsMantisa stands for the 53
\* bits of a Python float, 0 for arithmetic in which no operation rounds.
BitsMantisa == 3

Exponentes == (0 - 8)..8

\* the float with significand m and exponent e, with the sign of q
Empaquetar(q, e, m) ==
    IF e >= 0 THEN [num |-> (IF q.num < 0 THEN 0 - m ELSE m) * 2^e, den |-> 1]
    ELSE Frac(IF q.num < 0 THEN 0 - m ELSE m, 2^(0 - e))

\* nn / dd rounded to an integer, ties to even
RedondearSignificando(q, e, nn, dd) ==
    Empaquetar(q, e, IF 2 * (nn % dd) > dd \/ (2 * (nn % dd) = dd /\ (nn \div dd) % 2 = 1)
                     THEN (nn \div dd) + 1 ELSE nn \div dd)

\* |q| / 2^e as the quotient nn / dd of two integers
RedondearConExponente(q, e) ==
    RedondearSignificando(q, e, IF e >= 0 THEN Abs(q.num) ELSE Abs(q.num) * 2^(0 - e),
                                IF e >= 0 THEN q.den * 2^e ELSE q.den)

\* the float nearest to the fraction q: its exponent e is the one that puts
\* |q| / 2^e in [2^(mantisa-1), 2^mantisa)
Redondear(q) ==
    IF mantisa = 0 \/ q.den = 0 \/ q.num = 0 THEN q
    ELSE RedondearConExponente(q,
             CHOOSE x \in Exponentes :
                 IF x >= 0
                 THEN /\ 2^(mantisa - 1) * q.den * 2^x <= Abs(q.num)
                      /\ Abs(q.num) < 2^mantisa * q.den * 2^x
                 ELSE /\ 2^(mantisa - 1) * q.den <= Abs(q.num) * 2^(0 - x)
                      /\ Abs(q.num) * 2^(0 - x) < 2^mantisa * q.den)

\* float +, -, * and / on times held as integers and as fractions
SumaF(a, b) == Redondear([num |-> a + b, den |-> 1]).num
RestaF(a, b) == Redondear([num |-> a - b, den |-> 1]).num
ProductoF(n, q) == IF EsInf(q) THEN q ELSE Redondear(Frac(n * q.num, q.den))
DivisionF(p, q) == Redondear(Frac(p.num * q.den, p.den * q.num))

\* sum(...): the float additions from the left, starting at 0
RECURSIVE SumaFlotante(_, _)
SumaFlotante(acc, s) ==
    IF s = <<>> THEN acc ELSE SumaFlotante(SumaF(acc, Head(s)), Tail(s))

\* ------------------------------------------------------------------ Tarea
\* Tarea.__init__: a fresh task object
Tarea(tiempo, precedencias) ==
    [tiempo |-> tiempo, precedencias |-> precedencias,
     peso_posicional |-> 0, sucesores |-> {}]

\* Tarea._validar_datos on the modelled fields (the description is a
\* non-empty string for every modelled input)
ValidarDatos(id, tiempo) == id # "" /\ tiempo > 0

\* -------------------------------------------------------- LineaProduccion
\* first loop of _actualizar_relaciones_precedencia: clear every successor set
LimpiarSucesores(ts) == [i \in DOMAIN ts |-> [ts[i] EXCEPT !.sucesores = {}]]

\* inner loop: for each precedencia_id of task id that is a key, add id to
\* the successors of self.tareas[precedencia_id]
RECURSIVE AgregarSucesores(_, _, _)
AgregarSucesores(ts, id, precs) ==
    IF precs = <<>> THEN ts
    ELSE LET p == Head(precs)
             t1 == IF p \in DOMAIN ts
                   THEN [ts EXCEPT ![p].sucesores = @ \cup {id}]
                   ELSE ts
         IN AgregarSucesores(t1, id, Tail(precs))

\* outer loop over self.tareas.values()
RECURSIVE ConstruirSucesores(_, _, _)
ConstruirSucesores(ts, claves, sord) ==
    IF claves = <<>> THEN ts
    ELSE ConstruirSucesores(
             AgregarSucesores(ts, Head(claves), SeqDe(ts[Head(claves)].precedencias, sord)),
             Tail(claves), sord)

ActualizarRelacionesPrecedencia(ts, dord, sord) ==
    ConstruirSucesores(LimpiarSucesores(ts), SeqDe(DOMAIN ts, dord), sord)

\* self.tareas[tarea.id] = tarea
PonerTarea(ts, id, t) == [i \in DOMAIN ts \cup {id} |-> IF i = id THEN t ELSE ts[i]]

\* agregar_tarea registering only the new task with its own predecessors,
\* without the rebuild over all tasks
LineaAgregarTarea_incremental(ts, id, t, dord, sord) ==
    AgregarSucesores(PonerTarea(ts, id, t), id, SeqDe(t.precedencias, sord))

\* LineaProduccion.agregar_tarea
LineaAgregarTarea(ts, id, t, dord, sord) ==
    ActualizarRelacionesPrecedencia(PonerTarea(ts, id, t), dord, sord)

\* LineaProduccion.calcular_tiempo_ciclo: [ret, tc] = returned value and the
\* new _tiempo_ciclo
CalcularTiempoCiclo(dd, td, tc) ==
    IF dd <= 0 THEN [ret |-> Inf, tc |-> tc]
    ELSE [ret |-> Redondear(Frac(td, dd)), tc |-> Redondear(Frac(td, dd))]

\* LineaProduccion.obtener_tiempo_ciclo
ObtenerTiempoCiclo(dd, td, tc) ==
    IF FracEsCero(tc) THEN CalcularTiempoCiclo(dd, td, tc) ELSE [ret |-> tc, tc |-> tc]

\* LineaProduccion.obtener_tiempo_total_tareas
ObtenerTiempoTotalTareas(ts, dord) ==
    SumaFlotante(0, [k \in 1..Cardinality(DOMAIN ts) |-> ts[SeqDe(DOMAIN ts, dord)[k]].tiempo])

\* math.ceil(n / d) for d > 0
Techo(n, d) == 0 - ((0 - n) \div d)

\* LineaProduccion.calcular_numero_minimo_estaciones: [ret, tc]; the division
\* by float('inf') gives 0.0
CalcularNumeroMinimoEstaciones(ts, dd, td, tc, dord) ==
    LET c == ObtenerTiempoCiclo(dd, td, tc)
    IN [ret |-> IF FracEsCero(c.ret) THEN Cardinality(DOMAIN ts)
                ELSE IF EsInf(c.ret) THEN 0
                ELSE LET q == DivisionF(Frac(ObtenerTiempoTotalTareas(ts, dord), 1), c.ret)
                     IN Techo(q.num, q.den),
        tc |-> c.tc]

\* LineaProduccion.validar_precedencias: the error list, one <<task id,
\* predecessor id>> per message
RECURSIVE ErroresDeTarea(_, _, _)
ErroresDeTarea(ts, id, precs) ==
    IF precs = <<>> THEN <<>>
    ELSE (IF Head(precs) \notin DOMAIN ts THEN <<<<id, Head(precs)>>>> ELSE <<>>)
         \o ErroresDeTarea(ts, id, Tail(precs))

RECURSIVE ErroresDeTareas(_, _, _)
ErroresDeTareas(ts, claves, sord) ==
    IF claves = <<>> THEN <<>>
    ELSE ErroresDeTarea(ts, Head(claves), SeqDe(ts[Head(claves)].precedencias, sord))
         \o ErroresDeTareas(ts, Tail(claves), sord)

\* validar_precedencias returning at the first error found
ValidarPrecedencias_primera(ts, dord, sord) ==
    LET e == ErroresDeTareas(ts, SeqDe(DOMAIN ts, dord), sord)
    IN IF e = <<>> THEN e ELSE <<Head(e)>>

ValidarPrecedencias(ts, dord, sord) == ErroresDeTareas(ts, SeqDe(DOMAIN ts, dord), sord)

\* LineaProduccion.detectar_ciclos: tiene_ciclo returns [r, vis, pila], the
\* result and the two sets it mutates
RECURSIVE TieneCiclo(_, _, _, _, _)
RECURSIVE RecorrerSucesores(_, _, _, _, _)
TieneCiclo(ts, sord, id, vis, pila) ==
    IF id \in pila THEN [r |-> TRUE, vis |-> vis, pila |-> pila]
    ELSE IF id \in vis THEN [r |-> FALSE, vis |-> vis, pila |-> pila]
    ELSE LET v1 == vis \cup {id}
             p1 == pila \cup {id}
             res == IF id \in DOMAIN ts
                    THEN RecorrerSucesores(ts, sord, SeqDe(ts[id].sucesores, sord), v1, p1)
                    ELSE [r |-> FALSE, vis |-> v1, pila |-> p1]
         IN IF res.r THEN res
            ELSE [r |-> FALSE, vis |-> res.vis, pila |-> res.pila \ {id}]

RecorrerSucesores(ts, sord, sucs, vis, pila) ==
    IF sucs = <<>> THEN [r |-> FALSE, vis |-> vis, pila |-> pila]
    ELSE LET r1 == TieneCiclo(ts, sord, Head(sucs), vis, pila)
         IN IF r1.r THEN r1
            ELSE RecorrerSucesores(ts, sord, Tail(sucs), r1.vis, r1.pila)

\* the loop over self.tareas: one shared visitados, a fresh pila per root
RECURSIVE RecorrerRaices(_, _, _, _)
RecorrerRaices(ts, sord, claves, vis) ==
    IF claves = <<>> THEN FALSE
    ELSE IF Head(claves) \in vis THEN RecorrerRaices(ts, sord, Tail(claves), vis)
    ELSE LET r1 == TieneCiclo(ts, sord, Head(claves), vis, {})
         IN IF r1.r THEN TRUE ELSE RecorrerRaices(ts, sord, Tail(claves), r1.vis)

\* detectar_ciclos returning after the traversal from the first key
DetectarCiclos_primeraRaiz(ts, dord, sord) ==
    LET claves == SeqDe(DOMAIN ts, dord)
    IN IF claves = <<>> THEN FALSE ELSE TieneCiclo(ts, sord, Head(claves), {}, {}).r

DetectarCiclos(ts, dord, sord) == RecorrerRaices(ts, sord, SeqDe(DOMAIN ts, dord), {})

\* the loop of calcular_peso_posicional adding each successor's own duration
\* instead of its positional weight
PesoSucesores_soloTiempo(ts, sord, sucs, peso) ==
    [ts |-> ts,
     peso |-> peso + SumaSeq([k \in 1..Len(sucs) |->
                                 IF sucs[k] \in DOMAIN ts THEN ts[sucs[k]].tiempo ELSE 0])]

\* ------------------------------------------------------------------ Tarea
\* Tarea.calcular_peso_posicional: [ts, peso], the tasks with the weights
\* memoised so far and the returned weight.  PesoSucesores is its loop over
\* self._sucesores.
RECURSIVE CalcularPesoPosicional(_, _, _)
RECURSIVE PesoSucesores(_, _, _, _)
CalcularPesoPosicional(ts, sord, id) ==
    IF ts[id].peso_posicional > 0 THEN [ts |-> ts, peso |-> ts[id].peso_posicional]
    ELSE LET r == PesoSucesores(ts, sord, SeqDe(ts[id].sucesores, sord), ts[id].tiempo)
         IN [ts |-> [r.ts EXCEPT ![id].peso_posicional = r.peso], peso |-> r.peso]

PesoSucesores(ts, sord, sucs, peso) ==
    IF sucs = <<>> THEN [ts |-> ts, peso |-> peso]
    ELSE IF Head(sucs) \in DOMAIN ts
         THEN LET r == CalcularPesoPosicional(ts, sord, Head(sucs))
              IN PesoSucesores(r.ts, sord, Tail(sucs), SumaF(peso, r.peso))
         ELSE PesoSucesores(ts, sord, Tail(sucs), peso)

\* --------------------------------------------------------------- Estacion
\* Estacion.__init__
Estacion(numero, tiempo_ciclo_max) ==
    [numero |-> numero, tareas_asignadas |-> <<>>, tiempo_total |-> 0,
     tiempo_ciclo_max |-> tiempo_ciclo_max]

\* puede_agregar_tarea with < in place of <=
PuedeAgregarTarea_estricta(est, tiempo) ==
    EsInf(est.tiempo_ciclo_max)
    \/ (est.tiempo_total + tiempo) * est.tiempo_ciclo_max.den < est.tiempo_ciclo_max.num

\* Estacion.puede_agregar_tarea
PuedeAgregarTarea(est, tiempo) ==
    EntLeqFrac(SumaF(est.tiempo_total, tiempo), est.tiempo_ciclo_max)

\* Estacion.agregar_tarea: [ok, est]
EstacionAgregarTarea(est, id, tiempo) ==
    IF PuedeAgregarTarea(est, tiempo)
    THEN [ok |-> TRUE,
          est |-> [est EXCEPT !.tareas_asignadas = Append(@, id),
                              !.tiempo_total = SumaF(@, tiempo)]]
    ELSE [ok |-> FALSE, est |-> est]

\* Estacion.remover_tarea: [ok, est]; the first task with the id is removed
\* and its time subtracted from tiempo_total
EstacionRemoverTarea(est, tarea_id, ts) ==
    LET donde == {i \in 1..Len(est.tareas_asignadas) : est.tareas_asignadas[i] = tarea_id}
    IN IF donde = {} THEN [ok |-> FALSE, est |-> est]
       ELSE LET i == CHOOSE x \in donde : \A y \in donde : x <= y
            IN [ok |-> TRUE,
                est |-> [est EXCEPT
                           !.tiempo_total = RestaF(@, ts[tarea_id].tiempo),
                           !.tareas_asignadas =
                               SubSeq(@, 1, i - 1) \o SubSeq(@, i + 1, Len(@))]]

\* Estacion.obtener_ids_tareas
ObtenerIdsTareas(est) == est.tareas_asignadas

\* --------------------------------------------------------- BalanceadorRPW
\* BalanceadorRPW._validar_entrada: the error raised ("" when none) and the
\* _tiempo_ciclo left behind by calcular_tiempo_ciclo
ValidarEntrada(ts, dd, td, tc, dord, sord) ==
    IF DOMAIN ts = {} THEN [error |-> "sin_tareas", tc |-> tc]
    ELSE IF ValidarPrecedencias(ts, dord, sord) # <<>>
         THEN [error |-> "precedencias", tc |-> tc]
    ELSE IF DetectarCiclos(ts, dord, sord) THEN [error |-> "ciclos", tc |-> tc]
    ELSE LET c == CalcularTiempoCiclo(dd, td, tc)
         IN IF FracLeqCero(c.ret) THEN [error |-> "tiempo_ciclo", tc |-> c.tc]
            ELSE [error |-> "", tc |-> c.tc]

\* BalanceadorRPW._calcular_pesos_posicionales: reset, then compute for every
\* task in dict order
ResetearPesos(ts) == [i \in DOMAIN ts |-> [ts[i] EXCEPT !.peso_posicional = 0]]

RECURSIVE CalcularPesosDe(_, _, _)
CalcularPesosDe(ts, claves, sord) ==
    IF claves = <<>> THEN ts
    ELSE CalcularPesosDe(CalcularPesoPosicional(ts, sord, Head(claves)).ts, Tail(claves), sord)

CalcularPesosPosicionales(ts, dord, sord) ==
    CalcularPesosDe(ResetearPesos(ts), SeqDe(DOMAIN ts, dord), sord)

\* the sort key without its last component, the id
ClaveMenor_sinId(ts, a, b) ==
    LET pa == 0 - ts[a].peso_posicional
        pb == 0 - ts[b].peso_posicional
        na == Cardinality(ts[a].precedencias)
        nb == Cardinality(ts[b].precedencias)
    IN \/ pa < pb
       \/ pa = pb /\ na < nb

\* the sort key (-peso_posicional, len(precedencias), id), compared as tuples
ClaveMenor(ts, a, b) ==
    LET pa == 0 - ts[a].peso_posicional
        pb == 0 - ts[b].peso_posicional
        na == Cardinality(ts[a].precedencias)
        nb == Cardinality(ts[b].precedencias)
    IN \/ pa < pb
       \/ pa = pb /\ na < nb
       \/ pa = pb /\ na = nb /\ IdRank(a) < IdRank(b)

\* sorted() is stable: x goes before the first element whose key is greater
RECURSIVE InsertarOrdenado(_, _, _)
InsertarOrdenado(ts, s, x) ==
    IF s = <<>> THEN <<x>>
    ELSE IF ClaveMenor(ts, x, Head(s)) THEN <<x>> \o s
    ELSE <<Head(s)>> \o InsertarOrdenado(ts, Tail(s), x)

RECURSIVE OrdenarSeq(_, _, _)
OrdenarSeq(ts, claves, acc) ==
    IF claves = <<>> THEN acc
    ELSE OrdenarSeq(ts, Tail(claves), InsertarOrdenado(ts, acc, Head(claves)))

\* _ordenar_tareas_por_peso leaving the tasks in dict order
OrdenarTareasPorPeso_ordenDict(ts, dord) == SeqDe(DOMAIN ts, dord)

\* BalanceadorRPW._ordenar_tareas_por_peso
OrdenarTareasPorPeso(ts, dord) == OrdenarSeq(ts, SeqDe(DOMAIN ts, dord), <<>>)

\* _precedencias_satisfechas accepting every task
PrecedenciasSatisfechas_siempre(ts, id, asignadas) == TRUE

\* BalanceadorRPW._precedencias_satisfechas
PrecedenciasSatisfechas(ts, id, asignadas) == ts[id].precedencias \subseteq asignadas

\* _puede_asignar_a_estacion acting on what its loop inspects: a station that
\* holds tasks is refused to a task with predecessors none of which is in it
PuedeAsignarAEstacion_corrige(ts, id, est) ==
    /\ PuedeAgregarTarea(est, ts[id].tiempo)
    /\ \/ ts[id].precedencias = {}
       \/ \E k \in 1..Len(est.tareas_asignadas) :
             est.tareas_asignadas[k] \in ts[id].precedencias

\* BalanceadorRPW._puede_asignar_a_estacion: the loop over the station's
\* tasks only executes continue, so the result is the capacity test
PuedeAsignarAEstacion(ts, id, est) ==
    IF ~PuedeAgregarTarea(est, ts[id].tiempo) THEN FALSE ELSE TRUE

\* the inner for without its break: the last station that takes the task
BuscarEstacion_ultima(ts, id, ests) ==
    LET cabe == {i \in 1..Len(ests) :
                    PuedeAgregarTarea(ests[i], ts[id].tiempo)
                    /\ PuedeAsignarAEstacion(ts, id, ests[i])}
    IN IF cabe = {} THEN 0 ELSE CHOOSE i \in cabe : \A j \in cabe : i >= j

\* the inner for of _asignar_tareas_a_estaciones: index of the first station
\* that takes the task, 0 for None
BuscarEstacion(ts, id, ests) ==
    LET cabe == {i \in 1..Len(ests) :
                    PuedeAgregarTarea(ests[i], ts[id].tiempo)
                    /\ PuedeAsignarAEstacion(ts, id, ests[i])}
    IN IF cabe = {} THEN 0 ELSE CHOOSE i \in cabe : \A j \in cabe : i <= j

\* one iteration of the for over self.tareas_ordenadas; a holds the locals
\* estaciones and tareas_asignadas and the field self.asignaciones
AsignarTarea(ts, id, cap, a) ==
    IF ~PrecedenciasSatisfechas(ts, id, a.asignadas) THEN a
    ELSE LET i0 == BuscarEstacion(ts, id, a.estaciones)
             ests1 == IF i0 = 0
                      THEN Append(a.estaciones, Estacion(Len(a.estaciones) + 1, cap))
                      ELSE a.estaciones
             i == IF i0 = 0 THEN Len(ests1) ELSE i0
             r == EstacionAgregarTarea(ests1[i], id, ts[id].tiempo)
         IN IF r.ok
            THEN [estaciones |-> [ests1 EXCEPT ![i] = r.est],
                  asignadas |-> a.asignadas \cup {id},
                  asignaciones |-> [k \in DOMAIN a.asignaciones \cup {id} |->
                                      IF k = id THEN ests1[i].numero ELSE a.asignaciones[k]]]
            ELSE [a EXCEPT !.estaciones = ests1]

RECURSIVE AsignarBucle(_, _, _, _)
AsignarBucle(ts, ordenadas, cap, a) ==
    IF ordenadas = <<>> THEN a
    ELSE AsignarBucle(ts, Tail(ordenadas), cap, AsignarTarea(ts, Head(ordenadas), cap, a))

\* _asignar_tareas_a_estaciones appending to the line's current station list
AsignarTareasAEstaciones_acumula(ts, ordenadas, cap, asig) ==
    AsignarBucle(ts, ordenadas, cap,
                 [estaciones |-> estaciones, asignadas |-> {}, asignaciones |-> asig])

\* BalanceadorRPW._asignar_tareas_a_estaciones, from estaciones = [] and
\* tareas_asignadas = set(); cap is obtener_tiempo_ciclo()
AsignarTareasAEstaciones(ts, ordenadas, cap, asig) ==
    AsignarBucle(ts, ordenadas, cap,
                 [estaciones |-> <<>>, asignadas |-> {}, asignaciones |-> asig])

\* n / d as a reduced fraction, d # 0
Cociente(n, d) == IF d < 0 THEN Frac(0 - n, 0 - d) ELSE Frac(n, d)

\* BalanceadorRPW._generar_estadisticas (the entries the model uses)
GenerarEstadisticas(ts, ests, cap, dord) ==
    IF ests = <<>> THEN [numero_estaciones |-> 0]
    ELSE [numero_estaciones |-> Len(ests),
          tiempo_ciclo |-> cap,
          eficiencia_linea |->
              IF EsInf(cap) THEN Cero
              ELSE ProductoF(100, DivisionF(Frac(ObtenerTiempoTotalTareas(ts, dord), 1),
                                            ProductoF(Len(ests), cap)))]

\* a run that empties linea.estaciones at its start, before it validates
BalancearFallo_limpia(error, ts, ests, tc, ordprev, asig) ==
    [ok |-> FALSE, error |-> error, tareas |-> ts, estaciones |-> <<>>,
     tiempo_ciclo |-> tc, tareas_ordenadas |-> ordprev, asignaciones |-> asig]

\* balancear when _validar_entrada raises: the exception leaves the method at
\* line 32, so no field is written but the _tiempo_ciclo that
\* calcular_tiempo_ciclo may have set
BalancearFallo(error, ts, ests, tc, ordprev, asig) ==
    [ok |-> FALSE, error |-> error, tareas |-> ts, estaciones |-> ests,
     tiempo_ciclo |-> tc, tareas_ordenadas |-> ordprev, asignaciones |-> asig]

\* BalanceadorRPW.balancear: the outcome and every field the run leaves
Balancear(ts, ests, dd, td, tc, ordprev, asig, dord, sord) ==
    LET v == ValidarEntrada(ts, dd, td, tc, dord, sord)
    IN IF v.error # ""
       THEN BalancearFallo(v.error, ts, ests, v.tc, ordprev, asig)
       ELSE LET ts1 == CalcularPesosPosicionales(ts, dord, sord)
                ord1 == OrdenarTareasPorPeso(ts1, dord)
                c == ObtenerTiempoCiclo(dd, td, v.tc)
                a == AsignarTareasAEstaciones(ts1, ord1, c.ret, asig)
                c2 == ObtenerTiempoCiclo(dd, td, c.tc)
            IN [ok |-> TRUE, error |-> "", tareas |-> ts1,
                estaciones |-> a.estaciones, tiempo_ciclo |-> c2.tc,
                tareas_ordenadas |-> ord1, asignaciones |-> a.asignaciones,
                estadisticas |-> GenerarEstadisticas(ts1, a.estaciones, c2.ret, dord)]

\* ---------------------------------------------------------------- actions
\* LineaProduccion.agregar_tarea(Tarea(id, descripcion, tiempo, precedencias)):
\* the constructor raises ValidacionError before the line is touched
agregar_tarea(id, tiempo, precedencias) ==
    /\ IF ~ValidarDatos(id, tiempo)
       THEN /\ tareas' = tareas
            /\ resultado' = [op |-> "agregar_tarea", ok |-> FALSE, id |-> id]
       ELSE /\ tareas' \in {LineaAgregarTarea(tareas, id, Tarea(tiempo, precedencias), dord, sord) :
                               dord \in Ordenes(DOMAIN tareas \cup {id}),
                               sord \in Ordenes(IdsDe(tareas) \cup {id} \cup precedencias)}
            /\ resultado' = [op |-> "agregar_tarea", ok |-> TRUE, id |-> id]
    /\ UNCHANGED <<estaciones, demanda_diaria, tiempo_disponible, tiempo_ciclo,
                   tareas_ordenadas, asignaciones>>
    /\ UNCHANGED <<corridas, leido, mantisa>>

\* LineaProduccion.validar_precedencias()
validar_precedencias ==
    /\ resultado' \in {[op |-> "validar_precedencias",
                        errores |-> ValidarPrecedencias(tareas, dord, sord)] :
                          dord \in Ordenes(DOMAIN tareas), sord \in Ordenes(IdsDe(tareas))}
    /\ UNCHANGED <<tareas, estaciones, demanda_diaria, tiempo_disponible, tiempo_ciclo,
                   tareas_ordenadas, asignaciones>>
    /\ UNCHANGED <<corridas, leido, mantisa>>

\* LineaProduccion.detectar_ciclos()
detectar_ciclos ==
    /\ resultado' \in {[op |-> "detectar_ciclos",
                        valor |-> DetectarCiclos(tareas, dord, sord)] :
                          dord \in Ordenes(DOMAIN tareas), sord \in Ordenes(IdsDe(tareas))}
    /\ UNCHANGED <<tareas, estaciones, demanda_diaria, tiempo_disponible, tiempo_ciclo,
                   tareas_ordenadas, asignaciones>>
    /\ UNCHANGED <<corridas, leido, mantisa>>

\* LineaProduccion.calcular_tiempo_ciclo()
calcular_tiempo_ciclo ==
    /\ \E c \in {CalcularTiempoCiclo(demanda_diaria, tiempo_disponible, tiempo_ciclo)} :
          /\ tiempo_ciclo' = c.tc
          /\ resultado' = [op |-> "calcular_tiempo_ciclo", valor |-> c.ret]
    /\ UNCHANGED <<tareas, estaciones, demanda_diaria, tiempo_disponible,
                   tareas_ordenadas, asignaciones>>
    /\ UNCHANGED <<corridas, leido, mantisa>>

\* LineaProduccion.obtener_tiempo_ciclo()
obtener_tiempo_ciclo ==
    /\ \E c \in {ObtenerTiempoCiclo(demanda_diaria, tiempo_disponible, tiempo_ciclo)} :
          /\ tiempo_ciclo' = c.tc
          /\ resultado' = [op |-> "obtener_tiempo_ciclo", valor |-> c.ret]
    /\ UNCHANGED <<tareas, estaciones, demanda_diaria, tiempo_disponible,
                   tareas_ordenadas, asignaciones>>
    /\ UNCHANGED <<corridas, leido, mantisa>>

\* LineaProduccion.calcular_numero_minimo_estaciones()
calcular_numero_minimo_estaciones ==
    /\ \E c \in {CalcularNumeroMinimoEstaciones(tareas, demanda_diaria, tiempo_disponible,
                                                 tiempo_ciclo, dord) :
                    dord \in Ordenes(DOMAIN tareas)} :
          /\ tiempo_ciclo' = c.tc
          /\ resultado' = [op |-> "calcular_numero_minimo_estaciones", valor |-> c.ret]
    /\ UNCHANGED <<tareas, estaciones, demanda_diaria, tiempo_disponible,
                   tareas_ordenadas, asignaciones>>
    /\ UNCHANGED <<corridas, leido, mantisa>>

\* linea.demanda_diaria = d and linea.tiempo_disponible = t: the two
\* parameters are plain public attributes, a caller assigns them
set_demanda_diaria(d) ==
    /\ demanda_diaria' = d
    /\ resultado' = [op |-> "set_demanda_diaria"]
    /\ UNCHANGED <<tareas, estaciones, tiempo_disponible, tiempo_ciclo,
                   tareas_ordenadas, asignaciones>>
    /\ UNCHANGED <<corridas, leido, mantisa>>

set_tiempo_disponible(t) ==
    /\ tiempo_disponible' = t
    /\ resultado' = [op |-> "set_tiempo_disponible"]
    /\ UNCHANGED <<tareas, estaciones, demanda_diaria, tiempo_ciclo,
                   tareas_ordenadas, asignaciones>>
    /\ UNCHANGED <<corridas, leido, mantisa>>

\* BalanceadorRPW.balancear(): b is one run, under one iteration order of
\* the dict and one of the sets
balancear ==
    /\ \E b \in {Balancear(tareas, estaciones, demanda_diaria, tiempo_disponible,
                           tiempo_ciclo, tareas_ordenadas, asignaciones, dord, sord) :
                    dord \in Ordenes(DOMAIN tareas), sord \in Ordenes(IdsDe(tareas))} :
           /\ tareas' = b.tareas
           /\ estaciones' = b.estaciones
           /\ tiempo_ciclo' = b.tiempo_ciclo
           /\ tareas_ordenadas' = b.tareas_ordenadas
           /\ asignaciones' = b.asignaciones
           /\ resultado' = IF b.ok
                           THEN [op |-> "balancear", ok |-> TRUE,
                                 estaciones |-> b.estaciones,
                                 estadisticas |-> b.estadisticas]
                           ELSE [op |-> "balancear", ok |-> FALSE, error |-> b.error]
    /\ UNCHANGED <<demanda_diaria, tiempo_disponible>>
    /\ UNCHANGED <<corridas, leido, mantisa>>

\* --------------------------------------------- balancear, step by step
\* The UI runs balancear on a worker thread, each call on a new
\* BalanceadorRPW over the shared LineaProduccion (ventana_principal.py).
\* A call in progress is a record: pc, its balancer's tareas_ordenadas and
\* asignaciones, the locals of _asignar_tareas_a_estaciones, claves (the
\* weights the sort key read) and retorno (what the call returned).
Corridas == {"r1", "r2"}

CorridaInicial ==
    [pc |-> "inicio", claves |-> <<>>, tareas_ordenadas |-> <<>>, pendientes |-> <<>>,
     estaciones |-> <<>>, asignadas |-> {}, asignaciones |-> <<>>, cap |-> Cero,
     retorno |-> [ok |-> FALSE, error |-> "", estaciones |-> <<>>]]

\* linea.estaciones after an iteration of the assignment loop, whose list is
\* the local ests_local: the line's list is not written
LineaEstacionesEnBucle_directo(ests_linea, ests_local) == ests_local

LineaEstacionesEnBucle(ests_linea, ests_local) == ests_linea

\* Paso 1, self._validar_entrada()
paso_validar(r) ==
    /\ corridas[r].pc = "inicio"
    /\ \E v \in {ValidarEntrada(tareas, demanda_diaria, tiempo_disponible, tiempo_ciclo,
                                 dord, sord) :
                    dord \in Ordenes(DOMAIN tareas), sord \in Ordenes(IdsDe(tareas))} :
          /\ tiempo_ciclo' = v.tc
          /\ corridas' = IF v.error # ""
                         THEN [corridas EXCEPT ![r].pc = "fin", ![r].retorno.error = v.error]
                         ELSE [corridas EXCEPT ![r].pc = "resetear"]
    /\ UNCHANGED <<tareas, estaciones, demanda_diaria, tiempo_disponible,
                   tareas_ordenadas, asignaciones, resultado, leido, mantisa>>

\* Paso 2, first loop of _calcular_pesos_posicionales
paso_resetear_pesos(r) ==
    /\ corridas[r].pc = "resetear"
    /\ tareas' = ResetearPesos(tareas)
    /\ corridas' = [corridas EXCEPT ![r].pc = "calcular"]
    /\ UNCHANGED <<estaciones, demanda_diaria, tiempo_disponible, tiempo_ciclo,
                   tareas_ordenadas, asignaciones, resultado, leido, mantisa>>

\* Paso 2, second loop of _calcular_pesos_posicionales
paso_calcular_pesos(r) ==
    /\ corridas[r].pc = "calcular"
    /\ tareas' \in {CalcularPesosDe(tareas, SeqDe(DOMAIN tareas, dord), sord) :
                       dord \in Ordenes(DOMAIN tareas), sord \in Ordenes(IdsDe(tareas))}
    /\ corridas' = [corridas EXCEPT ![r].pc = "ordenar"]
    /\ UNCHANGED <<estaciones, demanda_diaria, tiempo_disponible, tiempo_ciclo,
                   tareas_ordenadas, asignaciones, resultado, leido, mantisa>>

\* Paso 3, _ordenar_tareas_por_peso
paso_ordenar(r) ==
    /\ corridas[r].pc = "ordenar"
    /\ corridas' \in
          {[corridas EXCEPT ![r].pc = "iniciar",
                            ![r].claves = [t \in DOMAIN tareas |-> tareas[t].peso_posicional],
                            ![r].tareas_ordenadas = OrdenarTareasPorPeso(tareas, dord)] :
              dord \in Ordenes(DOMAIN tareas)}
    /\ UNCHANGED <<tareas, estaciones, demanda_diaria, tiempo_disponible, tiempo_ciclo,
                   tareas_ordenadas, asignaciones, resultado, leido, mantisa>>

\* Paso 4, the locals of _asignar_tareas_a_estaciones before its loop
paso_iniciar_asignacion(r) ==
    /\ corridas[r].pc = "iniciar"
    /\ \E c \in {ObtenerTiempoCiclo(demanda_diaria, tiempo_disponible, tiempo_ciclo)} :
          /\ tiempo_ciclo' = c.tc
          /\ corridas' = [corridas EXCEPT ![r].pc = "asignar",
                                          ![r].estaciones = <<>>,
                                          ![r].asignadas = {},
                                          ![r].cap = c.ret,
                                          ![r].pendientes = corridas[r].tareas_ordenadas]
    /\ UNCHANGED <<tareas, estaciones, demanda_diaria, tiempo_disponible,
                   tareas_ordenadas, asignaciones, resultado, leido, mantisa>>

\* Paso 4, one iteration of the loop over the ranking
paso_asignar_tarea(r) ==
    /\ corridas[r].pc = "asignar"
    /\ corridas[r].pendientes # <<>>
    /\ \E a \in {AsignarTarea(tareas, Head(corridas[r].pendientes), corridas[r].cap,
                               [estaciones |-> corridas[r].estaciones,
                                asignadas |-> corridas[r].asignadas,
                                asignaciones |-> corridas[r].asignaciones])} :
          /\ corridas' = [corridas EXCEPT ![r].estaciones = a.estaciones,
                                          ![r].asignadas = a.asignadas,
                                          ![r].asignaciones = a.asignaciones,
                                          ![r].pendientes = Tail(corridas[r].pendientes)]
          /\ estaciones' = LineaEstacionesEnBucle(estaciones, a.estaciones)
    /\ UNCHANGED <<tareas, demanda_diaria, tiempo_disponible, tiempo_ciclo,
                   tareas_ordenadas, asignaciones, resultado, leido, mantisa>>

\* Paso 5 and the end of balancear: the statistics, then
\* self.linea_produccion.estaciones = estaciones, then the return
paso_publicar(r) ==
    /\ corridas[r].pc = "asignar"
    /\ corridas[r].pendientes = <<>>
    /\ \E c \in {ObtenerTiempoCiclo(demanda_diaria, tiempo_disponible, tiempo_ciclo)} :
          tiempo_ciclo' = c.tc
    /\ estaciones' = corridas[r].estaciones
    /\ corridas' = [corridas EXCEPT ![r].pc = "fin",
                                    ![r].retorno.ok = TRUE,
                                    ![r].retorno.estaciones = corridas[r].estaciones]
    /\ UNCHANGED <<tareas, demanda_diaria, tiempo_disponible,
                   tareas_ordenadas, asignaciones, resultado, leido, mantisa>>

\* another thread reads linea.estaciones
leer_estaciones ==
    /\ leido' = estaciones
    /\ UNCHANGED <<tareas, estaciones, demanda_diaria, tiempo_disponible, tiempo_ciclo,
                   tareas_ordenadas, asignaciones, resultado, corridas, mantisa>>

\* --------------------------------------------------------- specifications
\* LineaProduccion.__init__ and BalanceadorRPW.__init__
InitLineaFlotante(ts, demandas, disponibles, bits) ==
    /\ tareas = ts
    /\ estaciones = <<>>
    /\ demanda_diaria \in demandas
    /\ tiempo_disponible \in disponibles
    /\ tiempo_ciclo = Cero
    /\ tareas_ordenadas = <<>>
    /\ asignaciones = <<>>
    /\ resultado = [op |-> "ninguna"]
    /\ corridas = [r \in Corridas |-> CorridaInicial]
    /\ leido = <<>>
    /\ mantisa = bits

InitLinea(ts, demandas, disponibles) == InitLineaFlotante(ts, demandas, disponibles, 0)

\* the constructor arguments the session's agregar_tarea calls draw from
TareasEntrada ==
    { <<"A", MaxTiempo, {}>>, <<"A", 1, {"C"}>>,
      <<"B", 1, {"A"}>>, <<"B", MaxTiempo, {}>>,
      <<"C", 1, {"B"}>>, <<"C", MaxTiempo, {"A", "B"}>>,
      <<"C", 0, {}>> }

\* Spec: a session on one line and one balancer, from the empty line
Init == InitLinea(<<>>, Demandas, {0, MaxDisponible})

Next ==
    \/ \E e \in TareasEntrada : agregar_tarea(e[1], e[2], e[3])
    \/ validar_precedencias
    \/ detectar_ciclos
    \/ calcular_tiempo_ciclo
    \/ balancear

Spec == Init /\ [][Next]_vars

\* every line agregar_tarea can build over Ids with durations in Duraciones:
\* fresh tasks, successor sets as the last agregar_tarea left them
DatosTarea == [tiempo : Duraciones, precedencias : SUBSET Ids]

LineaDe(f) ==
    ActualizarRelacionesPrecedencia(
        [i \in DOMAIN f |-> Tarea(f[i].tiempo, f[i].precedencias)], IdsOrden, IdsOrden)

Lineas == {LineaDe(f) : f \in UNION {[D -> DatosTarea] : D \in SUBSET Ids}}

\* the precedence relation among the tasks of the line, and its cycles
Arco(ts, p, t) == p \in DOMAIN ts /\ t \in DOMAIN ts /\ p \in ts[t].precedencias

HayCiclo(ts) ==
    \E k \in 1..Cardinality(Ids) : \E w \in [1..k -> DOMAIN ts] :
        /\ \A i \in 1..(k - 1) : Arco(ts, w[i], w[i + 1])
        /\ Arco(ts, w[k], w[1])

ReferenciasResueltas(ts) == \A t \in DOMAIN ts : ts[t].precedencias \subseteq DOMAIN ts

\* SpecGrafo: the graph queries on every line
InitGrafo == \E ts \in Lineas : InitLinea(ts, {MaxDemanda}, {MaxDisponible})

NextGrafo == validar_precedencias \/ detectar_ciclos

SpecGrafo == InitGrafo /\ [][NextGrafo]_vars

\* SpecLinea: balancing runs on every line whose references resolve and
\* whose precedence relation is acyclic, under every parameter pair
LineasValidas == {ts \in Lineas : ReferenciasResueltas(ts) /\ ~HayCiclo(ts)}

InitLineas == \E ts \in LineasValidas : InitLinea(ts, Demandas, Disponibles)

NextLinea == balancear \/ calcular_tiempo_ciclo

SpecLinea == InitLineas /\ [][NextLinea]_vars

\* SpecEscenario: the five-task example, A(2), B(1), C(3, after A),
\* D(2, after B), E(1, after C and D), demand 10 and available time 60; the
\* caller adds the five tasks in any order, balances the complete line and
\* may ask for the theoretical minimum at any point
DatosEscenario ==
    [A |-> <<2, {}>>, B |-> <<1, {}>>, C |-> <<3, {"A"}>>, D |-> <<2, {"B"}>>,
     E |-> <<1, {"C", "D"}>>]

InitEscenario == InitLinea(<<>>, {10}, {60})

NextEscenario ==
    \/ \E id \in DOMAIN DatosEscenario \ DOMAIN tareas :
          agregar_tarea(id, DatosEscenario[id][1], DatosEscenario[id][2])
    \/ DOMAIN tareas = DOMAIN DatosEscenario /\ balancear
    \/ calcular_numero_minimo_estaciones

SpecEscenario == InitEscenario /\ [][NextEscenario]_vars

\* SpecParametros: one line whose two parameters the caller reassigns
\* between calls that compute or use the cycle time
LineasParametros ==
    {LineaDe(f) : f \in {[A |-> [tiempo |-> MaxTiempo, precedencias |-> {}]],
                         [A |-> [tiempo |-> 1, precedencias |-> {}],
                          B |-> [tiempo |-> MaxTiempo, precedencias |-> {"A"}]]}}

InitParametros == \E ts \in LineasParametros : InitLinea(ts, Demandas, Disponibles)

NextParametros ==
    \/ \E d \in Demandas : set_demanda_diaria(d)
    \/ \E t \in Disponibles : set_tiempo_disponible(t)
    \/ calcular_tiempo_ciclo
    \/ obtener_tiempo_ciclo
    \/ calcular_numero_minimo_estaciones
    \/ balancear

SpecParametros == InitParametros /\ [][NextParametros]_vars

\* SpecConcurrente: two balancear calls and a reader, interleaved step by
\* step on one complete acyclic line
LineasConcurrentes == {ts \in LineasValidas : DOMAIN ts = Ids}

InitConcurrente ==
    \E ts \in LineasConcurrentes : InitLinea(ts, {1, MaxDemanda}, {MaxDisponible})

NextConcurrente ==
    \/ \E r \in Corridas :
          \/ paso_validar(r)
          \/ paso_resetear_pesos(r)
          \/ paso_calcular_pesos(r)
          \/ paso_ordenar(r)
          \/ paso_iniciar_asignacion(r)
          \/ paso_asignar_tarea(r)
          \/ paso_publicar(r)
    \/ leer_estaciones

SpecConcurrente == InitConcurrente /\ [][NextConcurrente]_vars

\* ----------------------------------------------------------------- claims
BalanceoOk == resultado.op = "balancear" /\ resultado.ok
BalanceoError == resultado.op = "balancear" /\ ~resultado.ok

\* the ids in a station list, and the number of places an id occupies
IdsEnEstaciones(ests) ==
    {ests[i].tareas_asignadas[k] : <<i, k>> \in
        {<<i, k>> \in (1..Len(ests)) \X (1..Cardinality(Ids)) :
            k <= Len(ests[i].tareas_asignadas)}}

Apariciones(ests, id) ==
    Cardinality({<<i, k>> \in (1..Len(ests)) \X (1..Cardinality(Ids)) :
                    k <= Len(ests[i].tareas_asignadas)
                    /\ ests[i].tareas_asignadas[k] = id})

SumaTotales(ests) == SumaSeq([i \in 1..Len(ests) |-> ests[i].tiempo_total])

SumaDuraciones(ts) == SumaSeq([k \in 1..Cardinality(DOMAIN ts) |->
                                  ts[SeqDe(DOMAIN ts, IdsOrden)[k]].tiempo])

\* x <= n / d for the quotient of two integers (no constraint when d = 0,
\* where the quotient does not exist)
EntLeqCociente(x, n, d) ==
    IF d > 0 THEN x * d <= n ELSE IF d < 0 THEN x * d >= n ELSE TRUE

\* C1 (SpecLinea: acyclic lines whose references resolve): a station list
\* returned by balancear holds every task of the line exactly once and
\* nothing else.
C1_CadaTareaEnUnaEstacion ==
    BalanceoOk =>
        /\ IdsEnEstaciones(resultado.estaciones) = DOMAIN tareas
        /\ \A t \in DOMAIN tareas : Apariciones(resultado.estaciones, t) = 1

\* C2: in a returned station list every station's tiempo_total is at most
\* tiempo_disponible / demanda_diaria.
C2_EstacionDentroDelCiclo ==
    BalanceoOk =>
        \A i \in 1..Len(resultado.estaciones) :
            EntLeqCociente(resultado.estaciones[i].tiempo_total,
                           tiempo_disponible, demanda_diaria)

\* C3: when a task's duration alone exceeds the cycle time, balancear fails;
\* it returns no station list.
TareaExcedeCiclo ==
    /\ demanda_diaria > 0
    /\ \E t \in DOMAIN tareas : tareas[t].tiempo * demanda_diaria > tiempo_disponible

C3_TareaExcedeCicloFalla ==
    (resultado.op = "balancear" /\ TareaExcedeCiclo) => ~resultado.ok

\* C4: conservation, the totals of the returned stations add up to the
\* durations of all tasks of the line.
C4_Conservacion ==
    BalanceoOk => SumaTotales(resultado.estaciones) = SumaDuraciones(tareas)

\* C5 (SpecLinea, where the line never changes): a run that follows a
\* successful run succeeds and returns the station list the line already
\* holds, and leaves the same positional weights.
C5_Idempotencia ==
    [][(tareas_ordenadas # <<>> /\ resultado'.op = "balancear") =>
          /\ resultado'.ok
          /\ resultado'.estaciones = estaciones
          /\ estaciones' = estaciones
          /\ tareas' = tareas]_vars

C5_Witness ==
    /\ BalanceoOk
    /\ Len(estaciones) >= 2
    /\ \E i \in 1..Len(estaciones) : Len(estaciones[i].tareas_asignadas) >= 2

\* C6: a balancear call that fails leaves linea.estaciones as it was, and
\* nothing of the run past the validation has happened (no weight, ranking or
\* assignment was written).
C6_FalloNoTocaEstaciones ==
    [][(resultado'.op = "balancear" /\ ~resultado'.ok) =>
          /\ estaciones' = estaciones
          /\ tareas' = tareas
          /\ tareas_ordenadas' = tareas_ordenadas
          /\ asignaciones' = asignaciones]_vars

C6_Witness ==
    /\ BalanceoError
    /\ resultado.error \in {"precedencias", "ciclos"}
    /\ estaciones # <<>>

\* C7: detectar_ciclos returns True exactly when the precedence relation
\* among the tasks of the line has a directed cycle, under every iteration
\* order.
C7_DetectarCiclosExacto ==
    resultado.op = "detectar_ciclos" => (resultado.valor <=> HayCiclo(tareas))

C7_Witness ==
    /\ resultado.op = "detectar_ciclos"
    /\ resultado.valor
    /\ Cardinality(DOMAIN tareas) = Cardinality(Ids)
    /\ \A t \in DOMAIN tareas : Cardinality(tareas[t].precedencias) = 1
                                /\ t \notin tareas[t].precedencias
    /\ \A t, u \in DOMAIN tareas : t # u => tareas[t].precedencias # tareas[u].precedencias

\* C8: with demanda_diaria <= 0, calcular_tiempo_ciclo returns no value (it
\* fails) and balancear returns no station list.
C8_DemandaNoPositivaFalla ==
    demanda_diaria <= 0 =>
        /\ resultado.op # "calcular_tiempo_ciclo"
        /\ ~BalanceoOk

\* C9: agregar_tarea with an id that is already a key of the line fails and
\* leaves every task of the line as it was.
C9_IdDuplicadoFalla ==
    [][(resultado'.op = "agregar_tarea" /\ resultado'.id \in DOMAIN tareas) =>
          /\ ~resultado'.ok
          /\ tareas' = tareas]_vars

\* C10: validar_precedencias returns exactly one entry per (task, predecessor
\* id) pair whose predecessor id is not a key of the line, all of them in one
\* call.
Faltantes(ts) ==
    {par \in (DOMAIN ts) \X Ids : par[2] \in ts[par[1]].precedencias /\ par[2] \notin DOMAIN ts}

C10_ValidarPrecedenciasCompleto ==
    resultado.op = "validar_precedencias" =>
        /\ {resultado.errores[i] : i \in 1..Len(resultado.errores)} = Faltantes(tareas)
        /\ Len(resultado.errores) = Cardinality(Faltantes(tareas))
        /\ (resultado.errores = <<>> <=> ReferenciasResueltas(tareas))

C10_Witness ==
    /\ resultado.op = "validar_precedencias"
    /\ Len(resultado.errores) >= 2
    /\ \E i, j \in 1..Len(resultado.errores) :
          resultado.errores[i][1] # resultado.errores[j][1]

\* the direct successors of t in the precedence relation, and the tasks that
\* transitively depend on t
SucesoresDirectos(ts, t) == {s \in DOMAIN ts : Arco(ts, t, s)}

RECURSIVE Alcanzables(_, _)
Alcanzables(ts, S) ==
    LET n == S \cup {u \in DOMAIN ts : \E p \in S : Arco(ts, p, u)}
    IN IF n = S THEN S ELSE Alcanzables(ts, n)

Dependientes(ts, t) == Alcanzables(ts, SucesoresDirectos(ts, t))

SumaPesos(ts, S) ==
    SumaSeq([k \in 1..Cardinality(S) |-> ts[SeqDe(S, IdsOrden)[k]].peso_posicional])

SumaTiempos(ts, S) ==
    SumaSeq([k \in 1..Cardinality(S) |-> ts[SeqDe(S, IdsOrden)[k]].tiempo])

C12_PesoTransitivoUnaVez ==
    BalanceoOk =>
        \A t \in DOMAIN tareas :
            tareas[t].peso_posicional =
                tareas[t].tiempo + SumaTiempos(tareas, Dependientes(tareas, t))

\* the positional weight as the recurrence defines it from the line's data
\* alone (durations and predecessor sets), on an acyclic line
RECURSIVE PesoDef(_, _)
PesoDef(ts, t) ==
    ts[t].tiempo +
    SumaSeq([k \in 1..Cardinality(SucesoresDirectos(ts, t)) |->
                PesoDef(ts, SeqDe(SucesoresDirectos(ts, t), IdsOrden)[k])])

\* a ranks strictly before b: weight descending, then number of direct
\* predecessors ascending, then id ascending
RankAntes(ts, a, b) ==
    \/ PesoDef(ts, a) > PesoDef(ts, b)
    \/ /\ PesoDef(ts, a) = PesoDef(ts, b)
       /\ Cardinality(ts[a].precedencias) < Cardinality(ts[b].precedencias)
    \/ /\ PesoDef(ts, a) = PesoDef(ts, b)
       /\ Cardinality(ts[a].precedencias) = Cardinality(ts[b].precedencias)
       /\ IdRank(a) < IdRank(b)

\* C13: the ranking a run uses lists every task once, strictly ordered by
\* (weight descending, number of direct predecessors ascending, id
\* ascending); the order is fixed by the tasks' data, whatever the order in
\* which the dict and the sets are iterated.
C13_RankingOrdenTotal ==
    BalanceoOk =>
        /\ tareas_ordenadas \in Ordenes(DOMAIN tareas)
        /\ \A i, j \in 1..Len(tareas_ordenadas) :
              i < j => RankAntes(tareas, tareas_ordenadas[i], tareas_ordenadas[j])

C13_Witness ==
    /\ BalanceoOk
    /\ Len(tareas_ordenadas) = Cardinality(Ids)
    /\ \E i \in 1..(Len(tareas_ordenadas) - 1) :
          LET a == tareas_ordenadas[i]
              b == tareas_ordenadas[i + 1]
          IN /\ tareas[a].peso_posicional = tareas[b].peso_posicional
             /\ Cardinality(tareas[a].precedencias) = Cardinality(tareas[b].precedencias)
    /\ tareas_ordenadas # SeqDe(Ids, IdsOrden)

\* C14: in the five-task example (cycle time 60 / 10 = 6) a run on the
\* complete line leaves the weights A=6, B=4, C=4, D=3, E=1, ranks the tasks
\* A, B, C, D, E and returns exactly station 1 = [A, B, C] with total 6 and
\* station 2 = [D, E] with total 3, line efficiency 75; the theoretical
\* minimum of the complete line is 2, the number of stations returned.
EscenarioCompleto == DOMAIN tareas = DOMAIN DatosEscenario

C14_EscenarioConcreto ==
    /\ (EscenarioCompleto /\ resultado.op = "balancear") =>
          /\ resultado.ok
          /\ [t \in DOMAIN tareas |-> tareas[t].peso_posicional] =
                [A |-> 6, B |-> 4, C |-> 4, D |-> 3, E |-> 1]
          /\ tareas_ordenadas = <<"A", "B", "C", "D", "E">>
          /\ Len(resultado.estaciones) = 2
          /\ resultado.estaciones[1].numero = 1
          /\ resultado.estaciones[1].tareas_asignadas = <<"A", "B", "C">>
          /\ resultado.estaciones[1].tiempo_total = 6
          /\ resultado.estaciones[2].numero = 2
          /\ resultado.estaciones[2].tareas_asignadas = <<"D", "E">>
          /\ resultado.estaciones[2].tiempo_total = 3
          /\ resultado.estadisticas.numero_estaciones = 2
          /\ resultado.estadisticas.tiempo_ciclo = Frac(6, 1)
          /\ resultado.estadisticas.eficiencia_linea = Frac(75, 1)
          /\ estaciones = resultado.estaciones
    /\ (EscenarioCompleto /\ resultado.op = "calcular_numero_minimo_estaciones") =>
          resultado.valor = 2

C14_Witness ==
    /\ EscenarioCompleto
    /\ resultado.op = "calcular_numero_minimo_estaciones"
    /\ Len(estaciones) = 2

\* C15: with demanda_diaria > 0, the cycle time a call uses is the quotient
\* of the line's current tiempo_disponible and demanda_diaria: the value
\* obtener_tiempo_ciclo returns, the capacity of the stations a run returns,
\* and the divisor in calcular_numero_minimo_estaciones.
CicloActual == Frac(tiempo_disponible, demanda_diaria)

C15_TiempoCicloActual ==
    demanda_diaria > 0 =>
        /\ resultado.op = "obtener_tiempo_ciclo" => resultado.valor = CicloActual
        /\ BalanceoOk =>
              \A i \in 1..Len(resultado.estaciones) :
                  resultado.estaciones[i].tiempo_ciclo_max = CicloActual
        /\ (resultado.op = "calcular_numero_minimo_estaciones" /\ tiempo_disponible > 0) =>
              resultado.valor = Techo(SumaDuraciones(tareas) * demanda_diaria,
                                      tiempo_disponible)

\* C16: after agregar_tarea has added a task (to a line that stays acyclic),
\* no task holds a cached peso_posicional that is not its weight on the
\* line as it now is: each cached weight is either cleared (0) or current.
C16_PesoInvalidadoAlAgregar ==
    [][(resultado'.op = "agregar_tarea" /\ resultado'.ok /\ ~HayCiclo(tareas')) =>
          \A t \in DOMAIN tareas' :
              \/ tareas'[t].peso_posicional = 0
              \/ tareas'[t].peso_posicional = PesoDef(tareas', t)]_vars

\* C17: after every sequence of agregar_tarea calls, the successor set of
\* each task s of the line is the set of ids of the tasks of the line that
\* have s among their predecessors.
C17_SucesoresExactos ==
    \A s \in DOMAIN tareas :
        tareas[s].sucesores = {t \in DOMAIN tareas : s \in tareas[t].precedencias}

C17_Witness ==
    /\ resultado.op = "agregar_tarea"
    /\ resultado.ok
    /\ tareas[resultado.id].sucesores # {}
    /\ tareas[resultado.id].precedencias # {}
    /\ Cardinality(DOMAIN tareas) = Cardinality(Ids)

\* C18: the eficiencia_linea a run reports is the sum of the returned
\* stations' totals divided by (number of stations x cycle time), times 100
\* (0 when the cycle time is infinite), and so is at most 100.
C18_EficienciaDeEstaciones ==
    BalanceoOk =>
        LET n == Len(resultado.estaciones)
            tc == resultado.estadisticas.tiempo_ciclo
            ef == resultado.estadisticas.eficiencia_linea
        IN /\ ef = IF EsInf(tc) THEN Cero
                   ELSE Cociente(SumaTotales(resultado.estaciones) * tc.den * 100, n * tc.num)
           /\ ef.num <= 100 * ef.den

\* C19: while balancear calls run, linea.estaciones changes only in the
\* final step of a call, from the previous list to the complete list the
\* call returns; whatever a concurrent reader reads is the initial list or
\* the complete list some finished call returned, never a list under
\* construction.
C19_LectorNuncaVeListaParcial ==
    [][/\ estaciones' # estaciones =>
             \E r \in Corridas :
                 /\ corridas[r].pc = "asignar"
                 /\ corridas[r].pendientes = <<>>
                 /\ corridas'[r].pc = "fin"
                 /\ estaciones' = corridas'[r].retorno.estaciones
       /\ leido' # leido =>
             \/ leido' = <<>>
             \/ \E r \in Corridas : /\ corridas[r].pc = "fin"
                                    /\ leido' = corridas[r].retorno.estaciones]_vars

C19_Witness ==
    /\ leido # <<>>
    /\ leido = estaciones
    /\ \E r \in Corridas :
          /\ corridas[r].pc = "asignar"
          /\ corridas[r].pendientes # <<>>
          /\ corridas[r].estaciones # <<>>
          /\ corridas[r].estaciones # leido

\* the ranking and the station list of a serial run, from the line's
\* durations and predecessor sets
RankingDef(ts) ==
    CHOOSE s \in Ordenes(DOMAIN ts) :
        \A i, j \in 1..Len(s) : i < j => RankAntes(ts, s[i], s[j])

EstacionesEnSerie ==
    AsignarTareasAEstaciones(tareas, RankingDef(tareas),
                             Frac(tiempo_disponible, demanda_diaria), <<>>).estaciones

PesosDef(ts) == [t \in DOMAIN ts |-> PesoDef(ts, t)]

\* C20: a call returns a station list other than the serial one only when
\* its sort read positional weights that were not the line's weights, i.e.
\* another call had written the shared cache since this call computed them;
\* and that happens (C20_Witness): the other call resets the weights between
\* this call's weight computation and its sort, and this call returns a list
\* that differs from the serial one.
C20_SoloLaInterferenciaCambiaElResultado ==
    \A r \in Corridas :
        (corridas[r].pc = "fin" /\ corridas[r].retorno.ok
         /\ corridas[r].claves = PesosDef(tareas)) =>
            corridas[r].retorno.estaciones = EstacionesEnSerie

C20_Witness ==
    \E r \in Corridas :
        /\ corridas[r].pc = "fin"
        /\ corridas[r].retorno.ok
        /\ \A t \in DOMAIN tareas : corridas[r].claves[t] = 0
        /\ corridas[r].retorno.estaciones # EstacionesEnSerie
        /\ IdsEnEstaciones(corridas[r].retorno.estaciones) # DOMAIN tareas

\* position of an id in a sequence of ids (0 when absent), and the index of
\* the station of a list that holds an id (0 when none)
PosEn(s, id) == IF \E i \in 1..Len(s) : s[i] = id
                THEN CHOOSE i \in 1..Len(s) : s[i] = id ELSE 0

EstacionDe(ests, id) ==
    IF \E i \in 1..Len(ests) : PosEn(ests[i].tareas_asignadas, id) > 0
    THEN CHOOSE i \in 1..Len(ests) : PosEn(ests[i].tareas_asignadas, id) > 0
    ELSE 0

\* the stations of a list whose remaining capacity under the line's cycle
\* time (tiempo_disponible / demanda_diaria, demanda_diaria > 0) is at least d
ConCapacidad(ests, d) ==
    {j \in 1..Len(ests) : (ests[j].tiempo_total + d) * demanda_diaria <= tiempo_disponible}

\* C21: first fit.  In every iteration that places a task, the task goes to
\* the lowest-numbered station of the list whose remaining capacity is at
\* least its duration and the list does not grow; when no station of the
\* list has that capacity, one station is appended, with the cycle time as
\* capacity, and the task goes there.
C21_PrimerAjuste ==
    [][\A r \in Corridas :
          (corridas[r].pc = "asignar" /\ corridas'[r].asignadas # corridas[r].asignadas) =>
              LET t == Head(corridas[r].pendientes)
                  antes == corridas[r].estaciones
                  desp == corridas'[r].estaciones
                  cabe == ConCapacidad(antes, tareas[t].tiempo)
              IN IF cabe # {}
                 THEN /\ Len(desp) = Len(antes)
                      /\ EstacionDe(desp, t) \in cabe
                      /\ \A j \in cabe : EstacionDe(desp, t) <= j
                 ELSE /\ Len(desp) = Len(antes) + 1
                      /\ EstacionDe(desp, t) = Len(desp)
                      /\ desp[Len(desp)].tiempo_ciclo_max = CicloActual
                      /\ desp[Len(desp)].numero = Len(desp)]_vars

C21_Witness ==
    \E r \in Corridas :
        /\ Len(corridas[r].estaciones) = 2
        /\ Len(corridas[r].estaciones[1].tareas_asignadas) = 2
        /\ Len(corridas[r].estaciones[2].tareas_asignadas) = 1
        /\ PosEn(corridas[r].tareas_ordenadas, corridas[r].estaciones[1].tareas_asignadas[2])
              > PosEn(corridas[r].tareas_ordenadas, corridas[r].estaciones[2].tareas_asignadas[1])

\* C22: during a run, an iteration places a task only when all of the task's
\* predecessors are already placed, and at every point of the run every
\* placed task has all its predecessors placed.
C22_PrecedenciasAntesDeAsignar ==
    [][\A r \in Corridas :
          /\ (corridas[r].pc = "asignar" /\ corridas'[r].asignadas # corridas[r].asignadas) =>
                tareas[Head(corridas[r].pendientes)].precedencias \subseteq corridas[r].asignadas
          /\ \A t \in corridas'[r].asignadas :
                tareas[t].precedencias \subseteq corridas'[r].asignadas]_vars

C22_Witness ==
    \E r \in Corridas :
        /\ corridas[r].pc = "asignar"
        /\ \E i, j \in 1..Len(corridas[r].tareas_ordenadas) :
              /\ i < j
              /\ j <= Len(corridas[r].tareas_ordenadas) - Len(corridas[r].pendientes)
              /\ corridas[r].tareas_ordenadas[i] \notin corridas[r].asignadas
              /\ corridas[r].tareas_ordenadas[j] \in corridas[r].asignadas
              /\ ~(tareas[corridas[r].tareas_ordenadas[i]].precedencias
                       \subseteq corridas[r].asignadas)

\* the total of the tasks of station j of a returned list that were placed
\* before task t, i.e. that rank before t
TotalAntesDe(ests, j, t) ==
    SumaSeq([k \in 1..Len(ests[j].tareas_asignadas) |->
                IF PosEn(tareas_ordenadas, ests[j].tareas_asignadas[k])
                      < PosEn(tareas_ordenadas, t)
                THEN tareas[ests[j].tareas_asignadas[k]].tiempo ELSE 0])

\* C23: the secondary check refuses no station in which the task fits: in a
\* returned list, every station numbered below the station of a task t had,
\* when t was placed, too little capacity left for t, wherever the
\* predecessors of t are.  So nothing keeps a task out of a station numbered
\* below a predecessor's station, and that happens (C23_Witness).
C23_SoloLaCapacidadDecide ==
    BalanceoOk =>
        \A t \in IdsEnEstaciones(resultado.estaciones) :
            \A j \in 1..(EstacionDe(resultado.estaciones, t) - 1) :
                ~EntLeqFrac(TotalAntesDe(resultado.estaciones, j, t) + tareas[t].tiempo,
                            resultado.estaciones[j].tiempo_ciclo_max)

C23_Witness ==
    /\ BalanceoOk
    /\ \E t \in IdsEnEstaciones(resultado.estaciones) :
          \E q \in tareas[t].precedencias :
              /\ EstacionDe(resultado.estaciones, q) > 0
              /\ EstacionDe(resultado.estaciones, t) < EstacionDe(resultado.estaciones, q)

\* Tarea.agregar_predecesor(tarea_id) on the task id of the line: only the
\* task's own precedencias changes, no successor set is rebuilt
agregar_predecesor(id, tarea_id) ==
    /\ id \in DOMAIN tareas
    /\ tareas' = [tareas EXCEPT ![id].precedencias = @ \cup {tarea_id}]
    /\ resultado' = [op |-> "agregar_predecesor", id |-> id]
    /\ UNCHANGED <<estaciones, demanda_diaria, tiempo_disponible, tiempo_ciclo,
                   tareas_ordenadas, asignaciones>>
    /\ UNCHANGED <<corridas, leido, mantisa>>

\* SpecPredecesor: predecessors added to the tasks of a valid line, and runs
LineasPredecesor == {ts \in LineasValidas : DOMAIN ts \subseteq {"A", "B"}}

InitPredecesor == \E ts \in LineasPredecesor : InitLinea(ts, {1}, {MaxDisponible})

NextPredecesor ==
    \/ \E id \in Ids, tarea_id \in Ids : agregar_predecesor(id, tarea_id)
    \/ balancear

SpecPredecesor == InitPredecesor /\ [][NextPredecesor]_vars

\* the total duration of the tasks listed in s
TotalDeIds(ts, s) == SumaSeq([k \in 1..Len(s) |-> ts[s[k]].tiempo])

\* the multi-pass assignment the single pass is compared with: the first
\* remaining task of the ranking whose predecessors are all assigned and
\* which fits a station goes to the first existing station with room, else
\* to a new station; then the ranking is scanned again from its top.  The
\* stations are the lists of their task ids; it stops when a pass assigns
\* nothing.
RECURSIVE MultiPasada(_, _, _, _, _)
MultiPasada(ts, ordenadas, cap, hechas, ests) ==
    LET listas == {k \in 1..Len(ordenadas) :
                      /\ ordenadas[k] \notin hechas
                      /\ ts[ordenadas[k]].precedencias \subseteq hechas
                      /\ EntLeqFrac(ts[ordenadas[k]].tiempo, cap)}
    IN IF listas = {} THEN ests
       ELSE LET k == CHOOSE x \in listas : \A y \in listas : x <= y
                t == ordenadas[k]
                caben == {i \in 1..Len(ests) :
                             EntLeqFrac(TotalDeIds(ts, ests[i]) + ts[t].tiempo, cap)}
                i == IF caben = {} THEN Len(ests) + 1
                     ELSE CHOOSE x \in caben : \A y \in caben : x <= y
                ests1 == IF caben = {} THEN Append(ests, <<t>>)
                         ELSE [ests EXCEPT ![i] = Append(@, t)]
            IN MultiPasada(ts, ordenadas, cap, hechas \cup {t}, ests1)

\* the cycle time the line computes from its demand and available time
CicloDeLaLinea == CalcularTiempoCiclo(demanda_diaria, tiempo_disponible, tiempo_ciclo).ret

\* every duration is at most the cycle time
DuracionesCaben ==
    \A t \in DOMAIN tareas : EntLeqFrac(tareas[t].tiempo, CicloDeLaLinea)

\* C24: for an acyclic, reference-consistent line whose durations are all at
\* most the cycle time, the stations balancear returns hold, station by
\* station and in the same order, the tasks the multi-pass assignment over
\* the same ranking puts there.
C24_UnaPasadaIgualMultiPasada ==
    (BalanceoOk /\ ReferenciasResueltas(tareas) /\ ~HayCiclo(tareas) /\ DuracionesCaben) =>
        [i \in 1..Len(resultado.estaciones) |-> resultado.estaciones[i].tareas_asignadas]
            = MultiPasada(tareas, tareas_ordenadas, CicloDeLaLinea, {}, <<>>)

\* C25: on a line whose precedence relation has a cycle, here one closed by
\* agregar_predecesor on a task of the line, balancear does not return
\* stations: it raises.
C25_CicloRechazado ==
    (resultado.op = "balancear" /\ HayCiclo(tareas)) => ~resultado.ok

\* C26: in the ranking of a returned run on an acyclic line, every
\* predecessor of a task weighs strictly more than the task and stands
\* strictly before it.
C26_PredecesoresAntesEnElRanking ==
    (BalanceoOk /\ ~HayCiclo(tareas)) =>
        \A t \in DOMAIN tareas : \A q \in tareas[t].precedencias :
            /\ tareas[q].peso_posicional > tareas[t].peso_posicional
            /\ PosEn(tareas_ordenadas, q) > 0
            /\ PosEn(tareas_ordenadas, q) < PosEn(tareas_ordenadas, t)

\* C27: every station of a returned list holds at least one task.
C27_NingunaEstacionVacia ==
    BalanceoOk =>
        \A i \in 1..Len(resultado.estaciones) :
            resultado.estaciones[i].tareas_asignadas # <<>>

\* C28: after a run that returns, the balancer's asignaciones maps exactly
\* the tasks of the returned stations, each to the numero of its station.
C28_AsignacionesDelUltimoBalanceo ==
    BalanceoOk =>
        /\ DOMAIN asignaciones = IdsEnEstaciones(resultado.estaciones)
        /\ \A t \in DOMAIN asignaciones :
              asignaciones[t] = resultado.estaciones[EstacionDe(resultado.estaciones, t)].numero

\* Estacion.agregar_tarea(tarea) on station i of linea.estaciones, with a
\* task of the line
estacion_agregar_tarea(i, id) ==
    /\ i \in 1..Len(estaciones) /\ id \in DOMAIN tareas
    /\ \E r \in {EstacionAgregarTarea(estaciones[i], id, tareas[id].tiempo)} :
          /\ estaciones' = [estaciones EXCEPT ![i] = r.est]
          /\ resultado' = [op |-> "estacion_agregar_tarea", ok |-> r.ok, i |-> i]
    /\ UNCHANGED <<tareas, demanda_diaria, tiempo_disponible, tiempo_ciclo,
                   tareas_ordenadas, asignaciones>>
    /\ UNCHANGED <<corridas, leido, mantisa>>

\* Estacion.remover_tarea(tarea_id) on station i of linea.estaciones
estacion_remover_tarea(i, id) ==
    /\ i \in 1..Len(estaciones)
    /\ \E r \in {EstacionRemoverTarea(estaciones[i], id, tareas)} :
          /\ estaciones' = [estaciones EXCEPT ![i] = r.est]
          /\ resultado' = [op |-> "estacion_remover_tarea", ok |-> r.ok, i |-> i]
    /\ UNCHANGED <<tareas, demanda_diaria, tiempo_disponible, tiempo_ciclo,
                   tareas_ordenadas, asignaciones>>
    /\ UNCHANGED <<corridas, leido, mantisa>>

\* SpecFlotante: runs in float arithmetic, on lines whose times are floats of
\* BitsMantisa bits
TiemposFlotantes == {3, 4, 7}

LineasFlotantes ==
    {ts \in {LineaDe(f) : f \in [Ids -> [tiempo : TiemposFlotantes,
                                         precedencias : SUBSET {"A"}]]} :
        ReferenciasResueltas(ts) /\ ~HayCiclo(ts)}

InitFlotante == \E ts \in LineasFlotantes : InitLineaFlotante(ts, {1}, {7}, BitsMantisa)

NextFlotante == balancear \/ calcular_tiempo_ciclo \/ calcular_numero_minimo_estaciones

SpecFlotante == InitFlotante /\ [][NextFlotante]_vars

\* SpecEstacion: the stations of a run edited with agregar_tarea and
\* remover_tarea, in float arithmetic
LineasEstacion ==
    {LineaDe(f) : f \in {[A |-> [tiempo |-> 5, precedencias |-> {}],
                          B |-> [tiempo |-> 6, precedencias |-> {}]]}}

InitEstacion ==
    \E ts \in LineasEstacion : InitLineaFlotante(ts, {1, 2}, {12, 14}, BitsMantisa)

NextEstacion ==
    \/ balancear
    \/ \E i \in 1..Cardinality(Ids), id \in Ids : estacion_agregar_tarea(i, id)
    \/ \E i \in 1..Cardinality(Ids), id \in Ids : estacion_remover_tarea(i, id)

SpecEstacion == InitEstacion /\ [][NextEstacion]_vars

\* C29: when a returned list holds every task of the line, the number of
\* stations is at least what calcular_numero_minimo_estaciones then returns.
C29_AlMenosElMinimoTeorico ==
    (BalanceoOk /\ IdsEnEstaciones(resultado.estaciones) = DOMAIN tareas) =>
        \A dord \in Ordenes(DOMAIN tareas) :
            Len(resultado.estaciones) >=
                CalcularNumeroMinimoEstaciones(tareas, demanda_diaria, tiempo_disponible,
                                               tiempo_ciclo, dord).ret

\* C30: the tiempo_total of every station is the sum of the times of the
\* tasks in its tareas_asignadas, after every agregar_tarea and remover_tarea.
C30_TiempoTotalEsLaSuma ==
    \A i \in 1..Len(estaciones) :
        estaciones[i].tiempo_total =
            SumaFlotante(0, [k \in 1..Len(estaciones[i].tareas_asignadas) |->
                                tareas[estaciones[i].tareas_asignadas[k]].tiempo])

====
